---- MODULE Spec2Model ----
(***************************************************************************)
(* The primitive library and bootstrap of the wren VM (src/primitives.c):  *)
(* the native methods of Number, String and the "io" object, the PRIMITIVE *)
(* and GLOBAL registration macros, and registerPrimitives.                 *)
(*                                                                         *)
(* Values are references (indices) into `heap`.  C strings live in         *)
(* `buffers`, one malloc'ed block per entry.  Doubles are modelled as      *)
(* exact signed rationals with signed zero, infinities and NaN; rounding   *)
(* and overflow of the 53 bit mantissa are outside the bounds used here.   *)
(***************************************************************************)
EXTENDS Integers, Sequences, FiniteSets, TLC

\* ------------------------------------------------------------------ bounds

\* Number of primitive calls made after bootstrap.
MaxCalls == 2

\* ------------------------------------------------------- doubles (AS_NUM)

RECURSIVE Gcd(_, _)
Gcd(a, b) == IF b = 0 THEN a ELSE Gcd(b, a % b)

Fin(s, n, d) ==
  LET g == Gcd(n, d)
  IN  [k |-> "fin", s |-> s, n |-> n \div g, d |-> d \div g]

Inf(s) == [k |-> "inf", s |-> s, n |-> 1, d |-> 1]

\* The default NaN an invalid operation produces (sign bit set on x86-64).
DefaultNaN == [k |-> "nan", s |-> -1, n |-> 1, d |-> 1]

IntNum(i) == IF i < 0 THEN Fin(-1, -i, 1) ELSE Fin(1, i, 1)

IsZero(x) == x.k = "fin" /\ x.n = 0

\* value < 0 of C: false for NaN and for both zeros.
LessThanZero(x) == x.k # "nan" /\ x.s = -1 /\ ~IsZero(x)

\* Unary minus: flips the sign bit.
Neg(x) == [x EXCEPT !.s = -x.s]

\* a + b
NumAdd(x, y) ==
  IF x.k = "nan" THEN x
  ELSE IF y.k = "nan" THEN y
  ELSE IF x.k = "inf" /\ y.k = "inf" THEN (IF x.s = y.s THEN x ELSE DefaultNaN)
  ELSE IF x.k = "inf" THEN x
  ELSE IF y.k = "inf" THEN y
  ELSE LET num == x.s * x.n * y.d + y.s * y.n * x.d
           den == x.d * y.d
       IN  IF num = 0
           THEN Fin(IF IsZero(x) /\ IsZero(y) /\ x.s = -1 /\ y.s = -1
                    THEN -1 ELSE 1, 0, 1)
           ELSE IF num < 0 THEN Fin(-1, -num, den) ELSE Fin(1, num, den)

\* a - b
NumSub(x, y) == IF y.k = "nan" /\ x.k # "nan" THEN y ELSE NumAdd(x, Neg(y))

\* a * b
NumMul(x, y) ==
  IF x.k = "nan" THEN x
  ELSE IF y.k = "nan" THEN y
  ELSE IF x.k = "inf" \/ y.k = "inf"
       THEN (IF IsZero(x) \/ IsZero(y) THEN DefaultNaN ELSE Inf(x.s * y.s))
  ELSE Fin(x.s * y.s, x.n * y.n, x.d * y.d)

\* a / b: division by zero follows IEEE 754, it is not a fault.
NumDiv(x, y) ==
  IF x.k = "nan" THEN x
  ELSE IF y.k = "nan" THEN y
  ELSE IF x.k = "inf"
       THEN (IF y.k = "inf" THEN DefaultNaN ELSE Inf(x.s * y.s))
  ELSE IF y.k = "inf" THEN Fin(x.s * y.s, 0, 1)
  ELSE IF IsZero(y)
       THEN (IF IsZero(x) THEN DefaultNaN ELSE Inf(x.s * y.s))
  ELSE Fin(x.s * y.s, x.n * y.d, x.d * y.n)

\* ------------------------------------------------------ sprintf("%g", v)

Digits == <<"0", "1", "2", "3", "4", "5", "6", "7", "8", "9">>

Digit(i) == Digits[i + 1]

RECURSIVE Pow10(_)
Pow10(e) == IF e = 0 THEN 1 ELSE 10 * Pow10(e - 1)

\* The decimal digits of a natural number, most significant first.
RECURSIVE NatDigits(_)
NatDigits(n) ==
  IF n < 10 THEN <<Digit(n)>> ELSE Append(NatDigits(n \div 10), Digit(n % 10))

\* The decimal exponent of n/d > 0: the e with 10^e <= n/d < 10^(e+1).
RECURSIVE Exp10(_, _)
Exp10(n, d) ==
  IF n < d THEN Exp10(10 * n, d) - 1
  ELSE IF n >= 10 * d THEN Exp10(n, 10 * d) + 1
  ELSE 0

\* num/den rounded to the nearest integer, ties to even.
RoundHalfEven(num, den) ==
  LET q == num \div den
      r == num % den
  IN  IF 2 * r > den \/ (2 * r = den /\ q % 2 = 1) THEN q + 1 ELSE q

RECURSIVE StripZeros(_)
StripZeros(ds) ==
  IF Len(ds) > 0 /\ ds[Len(ds)] = "0"
  THEN StripZeros(SubSeq(ds, 1, Len(ds) - 1))
  ELSE ds

RECURSIVE Zeros(_)
Zeros(k) == IF k <= 0 THEN <<>> ELSE <<"0">> \o Zeros(k - 1)

\* The six significant digits (as a number in 10^5 .. 10^6-1) and the exponent.
SixDigits(n, d) ==
  LET e0 == Exp10(n, d)
      m0 == IF e0 <= 5 THEN RoundHalfEven(n * Pow10(5 - e0), d)
            ELSE RoundHalfEven(n, d * Pow10(e0 - 5))
  IN  IF m0 = 1000000 THEN [m |-> 100000, e |-> e0 + 1] ELSE [m |-> m0, e |-> e0]

FormatMagnitude(n, d) ==
  LET sd == SixDigits(n, d)
      ds == NatDigits(sd.m)
      e  == sd.e
  IN  IF e < -4 \/ e >= 6
      THEN \* style e, precision 5, trailing zeros removed
           LET frac == StripZeros(SubSeq(ds, 2, 6))
               ae   == IF e < 0 THEN -e ELSE e
               ed   == IF ae < 10 THEN <<"0">> \o NatDigits(ae) ELSE NatDigits(ae)
           IN  <<ds[1]>> \o (IF frac = <<>> THEN <<>> ELSE <<".">> \o frac)
               \o <<"e", IF e < 0 THEN "-" ELSE "+">> \o ed
      ELSE IF e >= 0
      THEN \* style f, precision 5 - e
           LET frac == StripZeros(SubSeq(ds, e + 2, 6))
           IN  SubSeq(ds, 1, e + 1) \o (IF frac = <<>> THEN <<>> ELSE <<".">> \o frac)
      ELSE <<"0", ".">> \o Zeros(-e - 1) \o StripZeros(ds)

\* The characters sprintf(temp, "%g", v) stores before the terminator.
FormatG(x) ==
  (IF x.s = -1 THEN <<"-">> ELSE <<>>) \o
  (IF x.k = "nan" THEN <<"n", "a", "n">>
   ELSE IF x.k = "inf" THEN <<"i", "n", "f">>
   ELSE IF x.n = 0 THEN <<"0">>
   ELSE FormatMagnitude(x.n, x.d))

\* ------------------------------------------------------------- constants

\* Number of slots of a class's methods array and of vm->globals.  The arrays
\* are declared in the VM's header, which PRIMITIVE and GLOBAL index without
\* any check or growth; the size is scaled down to the names used here.
MethodTableSize == 11

NUL == "NUL"

NL == "NL"

NULL == 0

\* ------------------------------------------------------------------ state

VARIABLES
  heap,             \* the objects allocated so far; a Value is an index
  buffers,          \* the malloc'ed character blocks
  methods,          \* class reference -> its methods array
  symbols,          \* vm->symbols: method names, id = position - 1
  globalSymbols,    \* vm->globalSymbols
  globals,          \* vm->globals
  unsupported,      \* vm->unsupported
  ioClass,          \* local of registerPrimitives
  unsupportedClass, \* local of registerPrimitives
  pc,               \* position inside registerPrimitives
  result,           \* the Value the last primitive call returned
  console,          \* the characters written to stdout
  crashed,          \* the process died in undefined behaviour
  nCalls,           \* primitive calls made so far
  lastPrim,         \* the primitive called last
  bound,            \* history: the <<class, name>> pairs PRIMITIVE was applied to
  lastBind,         \* history: the <<class, name, primitive>> PRIMITIVE bound last
  strayStores       \* history: PRIMITIVE stores that landed outside the table

vars ==
  <<heap, buffers, methods, symbols, globalSymbols, globals, unsupported,
    ioClass, unsupportedClass, pc, result, console, crashed, nCalls, lastPrim,
    bound, lastBind, strayStores>>

\* The part of the state PRIMITIVE and GLOBAL work on.
tableVars == <<methods, symbols, bound, lastBind, strayStores>>

callVars == <<result, console, crashed, nCalls, lastPrim>>

\* ---------------------------------------------------------------- objects

NoNum == [k |-> "none", s |-> 1, n |-> 0, d |-> 1]

\* makeNum
MakeNumObj(x) == [type |-> "OBJ_NUM", num |-> x, buf |-> 0, cls |-> 0]

\* makeString: the Value takes over the block it is given
MakeStringObj(b) == [type |-> "OBJ_STRING", num |-> NoNum, buf |-> b, cls |-> 0]

\* makeInstance
MakeInstanceObj(c) == [type |-> "OBJ_INSTANCE", num |-> NoNum, buf |-> 0, cls |-> c]

\* makeClass
MakeClassObj == [type |-> "OBJ_CLASS", num |-> NoNum, buf |-> 0, cls |-> 0]

EmptyMethod == [type |-> "METHOD_NONE", primitive |-> "none"]

\* The methods array of a class makeClass has just made.
EmptyTable == [i \in 0 .. MethodTableSize - 1 |-> EmptyMethod]

Refs == 1 .. Len(heap)

ClassRefs == {r \in Refs : heap[r].type = "OBJ_CLASS"}

\* A block of `size` bytes holding `data` from its first byte on; `wrote` is the
\* number of bytes the allocating code stored through the pointer.
Block(size, data, wrote) == [size |-> size, data |-> data, wrote |-> wrote]

\* strlen and the characters before the terminator.
RECURSIVE CString(_)
CString(data) ==
  IF data = <<>> \/ Head(data) = NUL THEN <<>>
  ELSE <<Head(data)>> \o CString(Tail(data))

\* The C string a String Value of heap h points to in the blocks b.
TextIn(h, b, v) == CString(b[h[v].buf].data)

\* AS_STRING(v), read as a C string
AS_STRING(v) == TextIn(heap, buffers, v)

\* AS_NUM(v)
AS_NUM(v) == heap[v].num

\* ----------------------------------------------------------- symbol table

\* The id of a name in a table, or -1.
RECURSIVE FindSymbol(_, _, _)
FindSymbol(table, name, i) ==
  IF i > Len(table) THEN -1
  ELSE IF table[i] = name THEN i - 1
  ELSE FindSymbol(table, name, i + 1)

\* ensureSymbol: the id of the name, registering it when it is new.
ensureSymbol(table, name) ==
  LET found == FindSymbol(table, name, 1)
  IN  IF found >= 0 THEN [table |-> table, id |-> found]
      ELSE [table |-> Append(table, name), id |-> Len(table)]

\* addSymbol: the same operation, used where registration is intended.
addSymbol(table, name) == ensureSymbol(table, name)

\* lookup(class, symbolId): direct indexing; beyond the array is unbound.
Lookup(cls, id) ==
  IF id \in DOMAIN methods[cls] THEN methods[cls][id] ELSE EmptyMethod

\* ---------------------------------------------------------------- the VM

\* vm->numClass and vm->stringClass exist before registerPrimitives runs.
numClass == 1

stringClass == 2

\* The Values the running program holds as literals: -3, 2, "", "a" and "b".
ConstantPool ==
  <<MakeNumObj(IntNum(-3)), MakeNumObj(IntNum(2)),
    MakeStringObj(1), MakeStringObj(2), MakeStringObj(3)>>

\* Their character blocks, each sized to its content plus the terminator.
ConstantBlocks ==
  <<Block(1, <<NUL>>, 1), Block(2, <<"a", NUL>>, 2), Block(2, <<"b", NUL>>, 2)>>

Init ==
  /\ heap = <<MakeClassObj, MakeClassObj>> \o ConstantPool
  /\ buffers = ConstantBlocks
  /\ methods = (numClass :> EmptyTable) @@ (stringClass :> EmptyTable)
  /\ symbols = <<>>
  /\ globalSymbols = <<>>
  /\ globals = [i \in 0 .. MethodTableSize - 1 |-> NULL]
  /\ unsupported = NULL
  /\ ioClass = NULL
  /\ unsupportedClass = NULL
  /\ pc = 0
  /\ result = NULL
  /\ console = <<>>
  /\ crashed = FALSE
  /\ nCalls = 0
  /\ lastPrim = "none"
  /\ bound = {}
  /\ lastBind = <<>>
  /\ strayStores = {}

\* -------------------------------------------------------------- PRIMITIVE

\* A store that keeps an earlier binding of the slot.
StoreMethodKeepFirst(table, symbol, prim) ==
  IF table[symbol].type = "METHOD_PRIMITIVE" THEN table
  ELSE [table EXCEPT ![symbol] = [type |-> "METHOD_PRIMITIVE", primitive |-> prim]]

\* A store indexed one slot off the symbol.
StoreMethodShifted(table, symbol, prim) ==
  [table EXCEPT ![(symbol + 1) % MethodTableSize] =
     [type |-> "METHOD_PRIMITIVE", primitive |-> prim]]

\* cls->methods[symbol].type = METHOD_PRIMITIVE;
\* cls->methods[symbol].primitive = primitive_##prim;
StoreMethod(table, symbol, prim) ==
  [table EXCEPT ![symbol] = [type |-> "METHOD_PRIMITIVE", primitive |-> prim]]

\* The PRIMITIVE macro.  The store has no bounds check and the array is never
\* grown: a symbol at or beyond the array's size is stored outside it, which
\* is undefined behaviour; the store then hits memory that holds nothing
\* modelled here, or a slot of another class.
PRIMITIVE(cls, name, prim) ==
  LET e == ensureSymbol(symbols, name)
  IN  /\ symbols' = e.table
      /\ bound' = bound \cup {<<cls, name>>}
      /\ lastBind' = <<cls, name, prim>>
      /\ IF e.id < MethodTableSize
         THEN /\ methods' = [methods EXCEPT ![cls] = StoreMethod(@, e.id, prim)]
              /\ strayStores' = strayStores
         ELSE /\ strayStores' = strayStores \cup {<<cls, e.id>>}
              /\ \E victim \in (ClassRefs \ {cls}) \cup {NULL} :
                   methods' =
                     IF victim = NULL THEN methods
                     ELSE [methods EXCEPT
                             ![victim] = StoreMethod(@, e.id - MethodTableSize, prim)]

\* The GLOBAL macro.
GLOBAL(cls, name) ==
  LET obj == Len(heap) + 1
      e   == addSymbol(globalSymbols, name)
  IN  /\ heap' = Append(heap, MakeInstanceObj(cls))
      /\ globalSymbols' = e.table
      /\ globals' = [globals EXCEPT ![e.id] = obj]

\* ------------------------------------------------------ registerPrimitives

Stmt(op, cls, name, prim) == [op |-> op, cls |-> cls, name |-> name, prim |-> prim]

\* registerPrimitives with the sentinel made before the "io" global.
ProgramSentinelEarly ==
  << Stmt("PRIMITIVE", "numClass", "abs", "num_abs"),
     Stmt("PRIMITIVE", "numClass", "toString", "num_toString"),
     Stmt("PRIMITIVE", "numClass", "- ", "num_minus"),
     Stmt("PRIMITIVE", "numClass", "+ ", "num_plus"),
     Stmt("PRIMITIVE", "numClass", "* ", "num_multiply"),
     Stmt("PRIMITIVE", "numClass", "/ ", "num_divide"),
     Stmt("PRIMITIVE", "stringClass", "contains ", "string_contains"),
     Stmt("PRIMITIVE", "stringClass", "count", "string_count"),
     Stmt("PRIMITIVE", "stringClass", "toString", "string_toString"),
     Stmt("PRIMITIVE", "stringClass", "+ ", "string_plus"),
     Stmt("makeClass", "ioClass", "", ""),
     Stmt("PRIMITIVE", "ioClass", "write ", "io_write"),
     Stmt("makeClass", "unsupportedClass", "", ""),
     Stmt("unsupported", "unsupportedClass", "", ""),
     Stmt("GLOBAL", "ioClass", "io", "") >>

\* The statements of registerPrimitives, in order.
Program ==
  << Stmt("PRIMITIVE", "numClass", "abs", "num_abs"),
     Stmt("PRIMITIVE", "numClass", "toString", "num_toString"),
     Stmt("PRIMITIVE", "numClass", "- ", "num_minus"),
     Stmt("PRIMITIVE", "numClass", "+ ", "num_plus"),
     Stmt("PRIMITIVE", "numClass", "* ", "num_multiply"),
     Stmt("PRIMITIVE", "numClass", "/ ", "num_divide"),
     Stmt("PRIMITIVE", "stringClass", "contains ", "string_contains"),
     Stmt("PRIMITIVE", "stringClass", "count", "string_count"),
     Stmt("PRIMITIVE", "stringClass", "toString", "string_toString"),
     Stmt("PRIMITIVE", "stringClass", "+ ", "string_plus"),
     Stmt("makeClass", "ioClass", "", ""),
     Stmt("PRIMITIVE", "ioClass", "write ", "io_write"),
     Stmt("GLOBAL", "ioClass", "io", ""),
     Stmt("makeClass", "unsupportedClass", "", ""),
     Stmt("unsupported", "unsupportedClass", "", "") >>

Done == Len(Program)

\* The class a statement names.
ClassOf(c) ==
  CASE c = "numClass" -> numClass
    [] c = "stringClass" -> stringClass
    [] c = "ioClass" -> ioClass
    [] c = "unsupportedClass" -> unsupportedClass

\* One statement of registerPrimitives; the function runs them in order, once.
registerPrimitives ==
  /\ pc < Done
  /\ pc' = pc + 1
  /\ UNCHANGED callVars
  /\ LET st == Program[pc + 1]
     IN  \/ /\ st.op = "PRIMITIVE"
            /\ PRIMITIVE(ClassOf(st.cls), st.name, st.prim)
            /\ UNCHANGED <<heap, buffers, globalSymbols, globals, unsupported,
                           ioClass, unsupportedClass>>
         \/ /\ st.op = "makeClass"
            /\ heap' = Append(heap, MakeClassObj)
            /\ methods' = methods @@ (Len(heap) + 1 :> EmptyTable)
            /\ ioClass' = IF st.cls = "ioClass" THEN Len(heap) + 1 ELSE ioClass
            /\ unsupportedClass' =
                 IF st.cls = "unsupportedClass" THEN Len(heap) + 1 ELSE unsupportedClass
            /\ UNCHANGED <<buffers, symbols, bound, lastBind, strayStores,
                           globalSymbols, globals, unsupported>>
         \/ /\ st.op = "GLOBAL"
            /\ GLOBAL(ClassOf(st.cls), st.name)
            /\ UNCHANGED <<buffers, tableVars, unsupported, ioClass, unsupportedClass>>
         \/ /\ st.op = "unsupported"
            /\ heap' = Append(heap, MakeInstanceObj(unsupportedClass))
            /\ unsupported' = Len(heap) + 1
            /\ UNCHANGED <<buffers, tableVars, globalSymbols, globals, ioClass,
                           unsupportedClass>>

\* ------------------------------------------------------ C string functions

\* Whether needle[j..] equals hay[i+j-1 ..], compared character by character.
RECURSIVE MatchAt(_, _, _, _)
MatchAt(hay, needle, i, j) ==
  IF j > Len(needle) THEN TRUE
  ELSE IF i + j - 1 > Len(hay) THEN FALSE
  ELSE hay[i + j - 1] = needle[j] /\ MatchAt(hay, needle, i, j + 1)

\* strstr from position i on: the offset of the first occurrence, or -1 (NULL).
RECURSIVE StrStrFrom(_, _, _)
StrStrFrom(hay, needle, i) ==
  IF MatchAt(hay, needle, i, 1) THEN i - 1
  ELSE IF i > Len(hay) THEN -1
  ELSE StrStrFrom(hay, needle, i + 1)

\* A search that only tries the start of the string.
strstrAnchored(hay, needle) == IF MatchAt(hay, needle, 1, 1) THEN 0 ELSE -1

\* strstr(string, search)
strstr(hay, needle) == StrStrFrom(hay, needle, 1)

\* strncpy(dest, src, n) into fresh memory: n bytes, the characters of src up
\* to its terminator and NUL from there on.
strncpy(src, n) ==
  [i \in 1 .. n |-> IF i <= Len(CString(src)) THEN src[i] ELSE NUL]

\* What a later read can find after a block whose terminator was stored one
\* byte past its end: the terminator, or a byte of the neighbour that
\* overwrote it and the neighbour's own end.
OverrunTails == {<<NUL>>, <<"?", NUL>>}

\* printValue: the text form of a Value.
printValue(v) ==
  CASE heap[v].type = "OBJ_NUM" -> FormatG(AS_NUM(v))
    [] heap[v].type = "OBJ_STRING" -> AS_STRING(v)
    [] heap[v].type = "OBJ_INSTANCE" -> <<"[instance]">>
    [] heap[v].type = "OBJ_CLASS" -> <<"[class]">>

\* ------------------------------------------------------------- primitives

bootVars ==
  <<methods, symbols, globalSymbols, globals, unsupported, ioClass,
    unsupportedClass, pc, bound, lastBind, strayStores>>

\* A primitive is called once registerPrimitives has returned.
Call(prim) ==
  /\ pc = Done
  /\ ~crashed
  /\ nCalls < MaxCalls
  /\ nCalls' = nCalls + 1
  /\ lastPrim' = prim
  /\ UNCHANGED bootVars

\* return v;
Return(v) == /\ result' = v
             /\ UNCHANGED <<heap, buffers, console, crashed>>

\* return (Value)makeNum(x);
ReturnNum(x) == /\ heap' = Append(heap, MakeNumObj(x))
                /\ result' = Len(heap) + 1
                /\ UNCHANGED <<buffers, console, crashed>>

\* return (Value)makeString(block);
ReturnString(block) == /\ buffers' = Append(buffers, block)
                       /\ heap' = Append(heap, MakeStringObj(Len(buffers) + 1))
                       /\ result' = Len(heap) + 1
                       /\ UNCHANGED <<console, crashed>>

\* The process dies inside the call: nothing is returned.
Crash == /\ crashed' = TRUE
         /\ UNCHANGED <<heap, buffers, result, console>>

Numbers == {r \in Refs : heap[r].type = "OBJ_NUM"}

Strings == {r \in Refs : heap[r].type = "OBJ_STRING"}

\* The receivers write is called on: the "io" object, and the sentinel as a
\* receiver of another class.
Instances == {r \in Refs : heap[r].type = "OBJ_INSTANCE"}

primitive_num_abs(a) ==
  /\ Call("num_abs")
  /\ ReturnNum(IF LessThanZero(AS_NUM(a)) THEN Neg(AS_NUM(a)) ELSE AS_NUM(a))

primitive_num_toString(a) ==
  LET temp == FormatG(AS_NUM(a)) \o <<NUL>>
      size == Len(CString(temp)) + 1
  IN  /\ Call("num_toString")
      /\ ReturnString(Block(size, strncpy(temp, size), size))

\* num_minus answering a mismatch with a sentinel of its own.
primitive_num_minus_ownSentinel(a, x) ==
  /\ Call("num_minus")
  /\ IF heap[x].type # "OBJ_NUM"
     THEN /\ heap' = Append(heap, MakeInstanceObj(unsupportedClass))
          /\ result' = Len(heap) + 1
          /\ UNCHANGED <<buffers, console, crashed>>
     ELSE ReturnNum(NumSub(AS_NUM(a), AS_NUM(x)))

primitive_num_minus(a, x) ==
  /\ Call("num_minus")
  /\ IF heap[x].type # "OBJ_NUM" THEN Return(unsupported)
     ELSE ReturnNum(NumSub(AS_NUM(a), AS_NUM(x)))

\* num_plus checking the tag of the receiver instead of the operand.
primitive_num_plus_checksReceiver(a, x) ==
  /\ Call("num_plus")
  /\ IF heap[a].type # "OBJ_NUM" THEN Return(unsupported)
     ELSE ReturnNum(NumAdd(AS_NUM(a), AS_NUM(x)))

primitive_num_plus(a, x) ==
  /\ Call("num_plus")
  /\ IF heap[x].type # "OBJ_NUM" THEN Return(unsupported)
     ELSE ReturnNum(NumAdd(AS_NUM(a), AS_NUM(x)))

primitive_num_multiply(a, x) ==
  /\ Call("num_multiply")
  /\ IF heap[x].type # "OBJ_NUM" THEN Return(unsupported)
     ELSE ReturnNum(NumMul(AS_NUM(a), AS_NUM(x)))

primitive_num_divide(a, x) ==
  /\ Call("num_divide")
  /\ IF heap[x].type # "OBJ_NUM" THEN Return(unsupported)
     ELSE ReturnNum(NumDiv(AS_NUM(a), AS_NUM(x)))

\* The tag of args[1] is not checked: AS_STRING of a Value that is no String
\* is undefined behaviour, which answers either way or kills the process.
primitive_string_contains(a, x) ==
  /\ Call("string_contains")
  /\ IF heap[x].type # "OBJ_STRING"
     THEN \/ \E garbage \in {0, 1} : ReturnNum(IntNum(garbage))
          \/ Crash
     ELSE LET string == AS_STRING(a)
              search == AS_STRING(x)
          IN  IF Len(string) = 0 /\ Len(search) = 0 THEN ReturnNum(IntNum(1))
              ELSE ReturnNum(IntNum(IF strstr(string, search) # -1 THEN 1 ELSE 0))

primitive_string_count(a) ==
  /\ Call("string_count")
  /\ ReturnNum(IntNum(Len(AS_STRING(a))))

primitive_string_toString(a) ==
  /\ Call("string_toString")
  /\ Return(a)

\* malloc(leftLength + rightLength) leaves no room for the terminator the
\* second strcpy stores: one byte is written past the block, which is
\* undefined behaviour.  The string then reads as the concatenation, or runs
\* on into what follows the block, or the process dies.
primitive_string_plus(a, x) ==
  /\ Call("string_plus")
  /\ IF heap[x].type # "OBJ_STRING" THEN Return(unsupported)
     ELSE LET left        == AS_STRING(a)
              right       == AS_STRING(x)
              leftLength  == Len(left)
              rightLength == Len(right)
              size        == leftLength + rightLength
              wrote       == leftLength + rightLength + 1
          IN  \/ \E tail \in OverrunTails :
                   ReturnString(Block(size, left \o right \o tail, wrote))
              \/ Crash

\* io_write returning the receiver.
primitive_io_write_returnsReceiver(a, x) ==
  /\ Call("io_write")
  /\ console' = console \o printValue(x) \o <<NL>>
  /\ result' = a
  /\ UNCHANGED <<heap, buffers, crashed>>

primitive_io_write(a, x) ==
  /\ Call("io_write")
  /\ console' = console \o printValue(x) \o <<NL>>
  /\ result' = x
  /\ UNCHANGED <<heap, buffers, crashed>>

\* ------------------------------------------------- binding after bootstrap

\* PRIMITIVE applied once more after registerPrimitives (a later override).
bindPrimitive(cls, name, prim) ==
  /\ pc = Done
  /\ PRIMITIVE(cls, name, prim)
  /\ UNCHANGED <<heap, buffers, globalSymbols, globals, unsupported, ioClass,
                 unsupportedClass, pc>>
  /\ UNCHANGED callVars

\* Names and implementations the overrides are drawn from.
RebindNames == {"toString", "foo", "bar "}

RebindPrims == {"num_abs", "string_count"}

\* More new names than the methods array has free slots.
FreshNames == {"foo", "bar ", "baz"}

\* ---------------------------------------------------------- specifications

Next ==
  \/ registerPrimitives
  \/ \E a \in Numbers : primitive_num_abs(a)
  \/ \E a \in Numbers : primitive_num_toString(a)
  \/ \E a \in Numbers, x \in Refs : primitive_num_minus(a, x)
  \/ \E a \in Numbers, x \in Refs : primitive_num_plus(a, x)
  \/ \E a \in Numbers, x \in Refs : primitive_num_multiply(a, x)
  \/ \E a \in Numbers, x \in Refs : primitive_num_divide(a, x)
  \/ \E a \in Strings, x \in Refs : primitive_string_contains(a, x)
  \/ \E a \in Strings : primitive_string_count(a)
  \/ \E a \in Strings : primitive_string_toString(a)
  \/ \E a \in Strings, x \in Refs : primitive_string_plus(a, x)
  \/ \E a \in Instances, x \in Refs : primitive_io_write(a, x)

\* registerPrimitives once, then any primitive calls.
Spec == Init /\ [][Next]_vars

NextBind ==
  \/ registerPrimitives
  \/ \E cls \in {numClass, stringClass}, name \in RebindNames, prim \in RebindPrims :
       bindPrimitive(cls, name, prim)

\* registerPrimitives once, then any overrides on Number and String.
SpecBind == Init /\ [][NextBind]_vars

NextOverflow ==
  \/ registerPrimitives
  \/ \E cls \in {numClass, stringClass}, name \in FreshNames :
       bindPrimitive(cls, name, "num_abs")

\* registerPrimitives once, then bindings under new names.
SpecOverflow == Init /\ [][NextOverflow]_vars

\* ----------------------------------------------------------------- claims

\* The id of a method name, or -1.
Id(name) == FindSymbol(symbols, name, 1)

\* The step is a call of one of the primitives named.
Called(prims) == nCalls' = nCalls + 1 /\ lastPrim' \in prims

\* What a tag-checking primitive must do with operand x when it requires `tag`.
TagChecked(x, tag) ==
  /\ (result' = unsupported) <=> (heap[x].type # tag)
  /\ result' = unsupported =>
       /\ heap' = heap
       /\ buffers' = buffers
       /\ ~crashed'
  /\ heap[x].type = tag =>
       /\ result' = Len(heap) + 1
       /\ heap' # heap
       /\ heap'[result'].type = tag

\* C1: after bootstrap, Number '- ', '+ ', '* ', '/ ' and String '+ ' return the
\* Unsupported sentinel exactly when the operand's tag is not the required
\* one; a sentinel result is vm->unsupported itself, allocates nothing and
\* raises no fault; with a matching tag the returned Value is never the sentinel.
C1_SentinelIffTagMismatch ==
  [][ /\ Called({"num_minus"}) =>
           \A a \in Numbers, x \in Refs :
             primitive_num_minus(a, x) =>
               (unsupported \in Refs /\ TagChecked(x, "OBJ_NUM"))
      /\ Called({"num_plus"}) =>
           \A a \in Numbers, x \in Refs :
             primitive_num_plus(a, x) =>
               (unsupported \in Refs /\ TagChecked(x, "OBJ_NUM"))
      /\ Called({"num_multiply"}) =>
           \A a \in Numbers, x \in Refs :
             primitive_num_multiply(a, x) =>
               (unsupported \in Refs /\ TagChecked(x, "OBJ_NUM"))
      /\ Called({"num_divide"}) =>
           \A a \in Numbers, x \in Refs :
             primitive_num_divide(a, x) =>
               (unsupported \in Refs /\ TagChecked(x, "OBJ_NUM"))
      /\ Called({"string_plus"}) =>
           \A a \in Strings, x \in Refs :
             (primitive_string_plus(a, x) /\ ~crashed') =>
               (unsupported \in Refs /\ TagChecked(x, "OBJ_STRING")) ]_vars

C1_Witness ==
  /\ lastPrim = "num_plus"
  /\ unsupported \in Refs
  /\ result = unsupported

\* C2: concatenate(s, t) yields a new String whose content is s's bytes
\* followed by t's bytes, in a block distinct from those of s and t, and
\* leaves the contents of s and t unchanged.
C2_ConcatenateContent ==
  [][ Called({"string_plus"}) =>
      \A s \in Strings, t \in Strings :
        primitive_string_plus(s, t)
        => /\ result' = Len(heap) + 1
           /\ heap'[result'].type = "OBJ_STRING"
           /\ TextIn(heap', buffers', result') = AS_STRING(s) \o AS_STRING(t)
           /\ Len(TextIn(heap', buffers', result')) = Len(AS_STRING(s)) + Len(AS_STRING(t))
           /\ heap'[result'].buf \notin {heap[s].buf, heap[t].buf}
           /\ TextIn(heap', buffers', s) = AS_STRING(s)
           /\ TextIn(heap', buffers', t) = AS_STRING(t) ]_vars

\* t occurs in s as a contiguous substring.
Occurs(t, s) ==
  \E i \in 0 .. Len(s) : i + Len(t) <= Len(s) /\ SubSeq(s, i + 1, i + Len(t)) = t

\* C3: contains(s, t) returns the Number 1 exactly when t occurs in s as a
\* contiguous substring and 0 otherwise; contains("", "") is 1, every string
\* contains "", and "" contains no non-empty string.
C3_ContainsIsSubstring ==
  [][ Called({"string_contains"}) =>
      \A s \in Strings, t \in Strings :
        primitive_string_contains(s, t)
        => LET ss == AS_STRING(s)
               tt == AS_STRING(t)
           IN  /\ result' = Len(heap) + 1
               /\ heap'[result'].type = "OBJ_NUM"
               /\ heap'[result'].num = IntNum(IF Occurs(tt, ss) THEN 1 ELSE 0)
               /\ tt = <<>> => heap'[result'].num = IntNum(1)
               /\ (ss = <<>> /\ tt # <<>>) => heap'[result'].num = IntNum(0) ]_vars

C3_Witness ==
  /\ lastPrim = "string_contains"
  /\ nCalls = 2
  /\ result \in Refs
  /\ heap[result].num = IntNum(1)
  /\ \E s \in Strings : Len(AS_STRING(s)) = 2

\* The lines of the console: the number of newlines written.
Lines(out) == Cardinality({i \in 1 .. Len(out) : out[i] = NL})

\* C4: write(v) returns the identical Value v for any Value and any receiver,
\* changes no method table, global slot or the sentinel, and appends exactly
\* one line, the text form of v and one newline, after what was written before.
C4_WriteReturnsArgument ==
  [][ Called({"io_write"}) =>
      \A a \in Instances, v \in Refs :
        primitive_io_write(a, v)
        => /\ result' = v
           /\ heap' = heap
           /\ buffers' = buffers
           /\ methods' = methods
           /\ globals' = globals
           /\ unsupported' = unsupported
           /\ console' = console \o printValue(v) \o <<NL>>
           /\ Lines(console') = Lines(console) + 1 ]_vars

C4_Witness ==
  /\ lastPrim = "io_write"
  /\ result = unsupported
  /\ Lines(console) = 2
  /\ console[Len(console)] = NL

\* The instances of a class.
InstancesOf(c) == {r \in Refs : heap[r].type = "OBJ_INSTANCE" /\ heap[r].cls = c}

\* C7: vm->unsupported is assigned once, during bootstrap, and no primitive
\* reassigns it; it is the only instance of its own class, whose method table
\* is empty; it is not the "io" singleton, a Number or a String; and every
\* sentinel a primitive returns is that object.
C7_SentinelCreatedOnce ==
  [][ /\ unsupported # NULL => unsupported' = unsupported
      /\ unsupported' # unsupported => (pc < Done /\ unsupported' = Len(heap) + 1)
      /\ unsupported' # NULL =>
           /\ heap'[unsupported'].type = "OBJ_INSTANCE"
           /\ heap'[unsupported'].cls = unsupportedClass'
           /\ {r \in 1 .. Len(heap') :
                 heap'[r].type = "OBJ_INSTANCE" /\ heap'[r].cls = unsupportedClass'}
                = {unsupported'}
           /\ methods'[unsupportedClass'] = EmptyTable
           /\ unsupported' # globals'[0]
           /\ heap'[unsupported'].cls # ioClass' ]_vars

C7_Witness ==
  /\ pc = Done
  /\ nCalls = 2
  /\ lastPrim = "num_minus"
  /\ result = unsupported
  /\ InstancesOf(unsupportedClass) = {unsupported}

\* The names bound on a class, read off its method table.
NamesOn(c) ==
  {symbols[i] : i \in {j \in 1 .. Len(symbols) :
                          j - 1 < MethodTableSize /\ methods[c][j - 1] # EmptyMethod}}

\* The implementation a class has under a name.
Impl(c, name) == Lookup(c, Id(name)).primitive

NumberNames == {"abs", "toString", "- ", "+ ", "* ", "/ "}

StringNames == {"contains ", "count", "toString", "+ "}

IoRegistered == globalSymbols = <<"io">> /\ globals[0] # NULL

\* C8: registerPrimitives binds the Number and String primitives, then makes
\* the I/O class, binds write, registers the "io" singleton and makes the
\* sentinel last; on return Number has exactly abs, toString, '- ', '+ ',
\* '* ', '/ ' and String exactly 'contains ', count, toString, '+ ', each with
\* its own primitive, "io" is the one global, holding the one instance of the
\* I/O class, whose only method is 'write '.
C8_BootstrapOrder ==
  /\ ioClass # NULL =>
       /\ NamesOn(numClass) = NumberNames
       /\ NamesOn(stringClass) = StringNames
  /\ globalSymbols # <<>> =>
       /\ ioClass # NULL
       /\ NamesOn(ioClass) = {"write "}
  /\ unsupportedClass # NULL => IoRegistered
  /\ unsupported # NULL => unsupportedClass # NULL
  /\ pc < Done => unsupported = NULL
  /\ pc = Done =>
       /\ Impl(numClass, "abs") = "num_abs"
       /\ Impl(numClass, "toString") = "num_toString"
       /\ Impl(numClass, "- ") = "num_minus"
       /\ Impl(numClass, "+ ") = "num_plus"
       /\ Impl(numClass, "* ") = "num_multiply"
       /\ Impl(numClass, "/ ") = "num_divide"
       /\ Impl(stringClass, "contains ") = "string_contains"
       /\ Impl(stringClass, "count") = "string_count"
       /\ Impl(stringClass, "toString") = "string_toString"
       /\ Impl(stringClass, "+ ") = "string_plus"
       /\ Impl(ioClass, "write ") = "io_write"
       /\ IoRegistered
       /\ "io" \notin {symbols[i] : i \in 1 .. Len(symbols)}
       /\ InstancesOf(ioClass) = {globals[0]}
       /\ {i \in DOMAIN globals : globals[i] # NULL} = {0}
       /\ unsupported \in Refs
       /\ unsupported = unsupportedClass + 1

C8_Witness ==
  /\ pc = Done
  /\ nCalls = 0
  /\ unsupported # NULL

\* C9: every string-producing primitive writes no more bytes, content and
\* terminator, than the block it allocated holds.
C9_WritesFitBlock ==
  \A b \in 1 .. Len(buffers) : buffers[b].wrote <= buffers[b].size

\* The id of a name in a symbol table, or -1.
IdIn(table, name) == FindSymbol(table, name, 1)

\* The indices of the bound slots of a method table.
BoundSlots(table) == {i \in DOMAIN table : table[i] # EmptyMethod}

Bind(prim) == [type |-> "METHOD_PRIMITIVE", primitive |-> prim]

\* C5: binding a primitive under a name that the class already has bound
\* leaves one slot for the name, and lookup returns the implementation bound
\* last; rebinding assigns no new symbol id, and binding the same
\* implementation again changes nothing.
C5_LastBindingWins ==
  [][ lastBind' # lastBind =>
        LET cls  == lastBind'[1]
            name == lastBind'[2]
            prim == lastBind'[3]
        IN  /\ methods'[cls][IdIn(symbols', name)] = Bind(prim)
            /\ Id(name) >= 0 => symbols' = symbols
            /\ <<cls, name>> \in bound =>
                 /\ Lookup(cls, Id(name)) # EmptyMethod
                 /\ BoundSlots(methods'[cls]) = BoundSlots(methods[cls])
                 /\ \A i \in DOMAIN methods[cls] :
                      i # Id(name) => methods'[cls][i] = methods[cls][i]
            /\ (Id(name) >= 0 /\ Lookup(cls, Id(name)) = Bind(prim)) =>
                 /\ methods' = methods
                 /\ symbols' = symbols ]_vars

C5_Witness ==
  /\ pc = Done
  /\ lastBind = <<numClass, "toString", "string_count">>
  /\ Impl(numClass, "toString") = "string_count"
  /\ Impl(stringClass, "toString") = "num_abs"
  /\ Len(symbols) = 9

\* C6: after any bindings the method names and their ids are a bijection, ids
\* are handed out in first-registration order and never change, every bound
\* slot sits at the id of the name it was bound under, and a class has a slot
\* bound only for names bound on that class.
C6_SlotIndexIsSymbolId ==
  [][ /\ \A i, j \in 1 .. Len(symbols') : symbols'[i] = symbols'[j] => i = j
      /\ \/ symbols' = symbols
         \/ /\ Len(symbols') = Len(symbols) + 1
            /\ SubSeq(symbols', 1, Len(symbols)) = symbols
      /\ \A c \in DOMAIN methods' :
           \A i \in DOMAIN methods'[c] :
             methods'[c][i] # EmptyMethod
             <=> (i < Len(symbols') /\ <<c, symbols'[i + 1]>> \in bound') ]_vars

C6_Witness ==
  /\ pc = Done
  /\ Id("foo") = 9
  /\ Id("bar ") = 10
  /\ Impl(numClass, "foo") = "num_abs"
  /\ Lookup(stringClass, Id("foo")) = EmptyMethod
  /\ Impl(numClass, "toString") = "num_toString"
  /\ Impl(stringClass, "toString") = "string_toString"
  /\ Lookup(numClass, Id("count")) = EmptyMethod
  /\ Lookup(stringClass, Id("abs")) = EmptyMethod

====
